---- MODULE Spec2Model ----
(***************************************************************************)
(* Comicks page editor (src/app.js): the page document, the layout-sync    *)
(* effect, the JSON save/load path with its sanitizer, the pointer and     *)
(* keyboard handlers and the PNG export counter.                           *)
(*                                                                         *)
(* JavaScript values are dynamically typed, so every scalar is a one-field *)
(* record whose field name is its type tag: [num |-> 24], [str |-> "4"],   *)
(* [nan |-> TRUE], [undef |-> TRUE] (undefined, or a JSON null read as a   *)
(* property: the code only tests them with ?? and ||, which treat both     *)
(* alike), [uid |-> n] (the n-th string returned by uid()), [txt |-> s]    *)
(* (a string kept as its sequence of characters).  Arrays are 1-based      *)
(* sequences here, 0-based in the source.                                  *)
(***************************************************************************)
EXTENDS Integers, Sequences, FiniteSets, TLC

VARIABLES
  page,          \* App state: the document {layout, panels}
  selection,     \* App state: {panelIdx, elId}
  depsLayout,    \* the page.layout the layout-sync effect last ran for
  dragRef,       \* dragRef.current of each mounted Panel, by panel position
  probes,        \* addImage calls suspended at their await
  nextUid,       \* uid() and URL.createObjectURL return fresh values: a counter
  alertMsg,      \* the alert() text the last handler showed, "" when it showed none
  steps,         \* input events handled so far
  comicsCount,   \* localStorage.getItem('comicsCount'): null or a string
  comicsCount0,  \* its value when the page was opened
  exporting,     \* exportPNG calls suspended at await toPng
  exported,      \* toPng promises that resolved
  exportFailed   \* toPng promises that rejected

vars == <<page, selection, depsLayout, dragRef, probes, nextUid, alertMsg, steps,
          comicsCount, comicsCount0, exporting, exported, exportFailed>>

editorVars == <<page, selection, depsLayout, dragRef, probes, nextUid>>

exportVars == <<comicsCount, comicsCount0, exporting, exported, exportFailed>>

-----------------------------------------------------------------------------
(* JavaScript values *)

Num(n) == [num |-> n]

Str(s) == [str |-> s]

Txt(s) == [txt |-> s]

Uid(n) == [uid |-> n]

NaN == [nan |-> TRUE]

UNDEF == [undef |-> TRUE]

null == [null |-> TRUE]

IsNum(v) == DOMAIN v = {"num"}

IsStr(v) == DOMAIN v = {"str"}

\* ToBoolean, as || and ! apply it
Truthy(v) ==
  CASE DOMAIN v = {"undef"} -> FALSE
    [] DOMAIN v = {"null"} -> FALSE
    [] DOMAIN v = {"nan"} -> FALSE
    [] DOMAIN v = {"num"} -> v.num # 0
    [] DOMAIN v = {"str"} -> v.str # ""
    [] DOMAIN v = {"txt"} -> v.txt # <<>>
    [] OTHER -> TRUE

\* a || b
Or(a, b) == IF Truthy(a) THEN a ELSE b

\* a ?? b
Nullish(a, b) == IF DOMAIN a \in {{"undef"}, {"null"}} THEN b ELSE a

\* The strings of the inputs that parse as numbers, with their values
NumericStrings == [s \in {"", "7", "20000"} |-> CASE s = "" -> 0 [] s = "7" -> 7 [] s = "20000" -> 20000]

\* ToNumber, as Math.min and Math.max apply it to their arguments
ToNumber(v) ==
  CASE DOMAIN v = {"num"} -> v
    [] DOMAIN v = {"str"} -> IF v.str \in DOMAIN NumericStrings THEN Num(NumericStrings[v.str]) ELSE NaN
    [] DOMAIN v = {"null"} -> Num(0)
    [] OTHER -> NaN

MathMin(a, b) ==
  LET x == ToNumber(a)
      y == ToNumber(b)
  IN IF x = NaN \/ y = NaN THEN NaN ELSE IF x.num <= y.num THEN x ELSE y

MathMax(a, b) ==
  LET x == ToNumber(a)
      y == ToNumber(b)
  IN IF x = NaN \/ y = NaN THEN NaN ELSE IF x.num >= y.num THEN x ELSE y

\* a + b on numbers (NaN is contagious)
Plus(a, b) ==
  LET x == ToNumber(a)
      y == ToNumber(b)
  IN IF x = NaN \/ y = NaN THEN NaN ELSE Num(x.num + y.num)

clamp(v, a, b) == MathMax(Num(a), MathMin(Num(b), v))

\* { ...a, ...b }
Spread(a, b) == [f \in DOMAIN a \cup DOMAIN b |-> IF f \in DOMAIN b THEN b[f] ELSE a[f]]

\* o.f on a non-null value: undefined when o has no such property
Get(o, f) == IF f \in DOMAIN o THEN o[f] ELSE UNDEF

\* o?.f
OptGet(o, f) == IF DOMAIN o \in {{"undef"}, {"null"}} THEN UNDEF ELSE Get(o, f)

IsArray(v) == DOMAIN v = {"arr"}

Digit == <<"0", "1", "2", "3", "4", "5", "6", "7", "8", "9">>

RECURSIVE NumberToString(_)
\* String(n) for an integer n
NumberToString(n) ==
  IF n < 0 THEN "-" \o NumberToString(0 - n)
  ELSE IF n < 10 THEN Digit[n + 1]
  ELSE NumberToString(n \div 10) \o Digit[(n % 10) + 1]

\* ToPropertyKey, as the in operator and LAYOUTS[...] apply it
PropertyKey(v) ==
  CASE DOMAIN v = {"str"} -> v.str
    [] DOMAIN v = {"num"} -> NumberToString(v.num)
    [] DOMAIN v = {"null"} -> "null"
    [] DOMAIN v = {"nan"} -> "NaN"
    [] DOMAIN v = {"undef"} -> "undefined"
    [] OTHER -> "[object]"

-----------------------------------------------------------------------------
(* Document model *)

LAYOUTS == [k \in {"1", "2h", "2v", "4"} |->
             [panels |-> CASE k = "1" -> 1 [] k = "2h" -> 2 [] k = "2v" -> 2 [] k = "4" -> 4]]

\* Property names every object literal inherits from Object.prototype
ObjectPrototypeKeys ==
  {"constructor", "toString", "toLocaleString", "valueOf", "hasOwnProperty",
   "isPrototypeOf", "propertyIsEnumerable", "__proto__"}

\* key in LAYOUTS
InLAYOUTS(key) == PropertyKey(key) \in DOMAIN LAYOUTS \cup ObjectPrototypeKeys

\* LAYOUTS[layout].panels: undefined for an inherited property
LayoutPanels(layout) ==
  IF PropertyKey(layout) \in DOMAIN LAYOUTS THEN Num(LAYOUTS[PropertyKey(layout)].panels) ELSE UNDEF

EmptyPanel(n) == [id |-> Uid(n), bg |-> Str("#ffffff"), elements |-> <<>>]

DEFAULT_PAGE(n) == [layout |-> Str("4"), panels |-> [i \in 1..4 |-> EmptyPanel(n + i - 1)]]

defaultText(subtype, n) ==
  [id |-> Uid(n),
   type |-> Str("text"),
   subtype |-> subtype,
   text |-> IF subtype = Str("sfx") THEN Txt(<<"B", "A", "M", "!">>)
            ELSE IF subtype = Str("caption") THEN Txt(<<"C", "a", "p", "t", "i", "o", "n", ".", ".", ".">>)
            ELSE Txt(<<"S", "p", "e", "e", "c", "h", ".", ".", ".">>),
   x |-> Num(24), y |-> Num(24), w |-> Num(200), h |-> Num(80),
   fontSize |-> IF subtype = Str("sfx") THEN Num(36) ELSE Num(20),
   color |-> Str("#111827"),
   bg |-> IF subtype = Str("caption") THEN Str("#fef3c7") ELSE Str("#ffffffcc"),
   rotate |-> Num(0),
   z |-> Num(1),
   align |-> Str("left"),
   radius |-> IF subtype = Str("speech") THEN Num(16) ELSE Num(8),
   weight |-> IF subtype = Str("sfx") THEN Num(800) ELSE Num(600)]

defaultImage(src, natural, n) ==
  [id |-> Uid(n),
   type |-> Str("image"),
   src |-> src,
   x |-> Num(24), y |-> Num(24),
   w |-> MathMin(Num(300), Or(OptGet(natural, "width"), Num(300))),
   h |-> MathMin(Num(220), Or(OptGet(natural, "height"), Num(220))),
   z |-> Num(0),
   rotate |-> Num(0)]

-----------------------------------------------------------------------------
(* Sanitizer *)

TextMax == 2000

\* String(v) as a sequence of characters
RECURSIVE DigitsOf(_)
DigitsOf(n) == IF n < 10 THEN <<Digit[n + 1]>> ELSE Append(DigitsOf(n \div 10), Digit[(n % 10) + 1])

StringOf(v) ==
  CASE DOMAIN v = {"txt"} -> v.txt
    [] DOMAIN v = {"num"} -> IF v.num < 0 THEN <<"-">> \o DigitsOf(0 - v.num) ELSE DigitsOf(v.num)
    [] DOMAIN v = {"str"} -> <<v.str>>
    [] OTHER -> <<"[object]">>

\* Slice without the cut: the whole string
SliceWhole(s, n) == s

\* s.slice(0, n)
Slice(s, n) == SubSeq(s, 1, IF Len(s) < n THEN Len(s) ELSE n)

Subtypes == {Str("speech"), Str("caption"), Str("sfx")}

Aligns == {Str("left"), Str("center"), Str("right")}

\* sanitizeElement(el) for a non-null el, uid() returning Uid(n)
sanitizeElement(el, n) ==
  IF Get(el, "type") = Str("image")
  THEN Spread(defaultImage(Or(Get(el, "src"), Str("")), [width |-> Get(el, "w"), height |-> Get(el, "h")], n),
         [x |-> clamp(Nullish(Get(el, "x"), Num(24)), 0, 10000),
          y |-> clamp(Nullish(Get(el, "y"), Num(24)), 0, 10000),
          w |-> clamp(Nullish(Get(el, "w"), Num(300)), 10, 10000),
          h |-> clamp(Nullish(Get(el, "h"), Num(220)), 10, 10000),
          z |-> Nullish(Get(el, "z"), Num(0)),
          rotate |-> Nullish(Get(el, "rotate"), Num(0))])
  ELSE LET subtype == IF Get(el, "subtype") \in Subtypes THEN Get(el, "subtype") ELSE Str("speech")
       IN Spread(defaultText(subtype, n),
            [text |-> Txt(Slice(StringOf(Nullish(Get(el, "text"), Txt(<<>>))), TextMax)),
             x |-> clamp(Nullish(Get(el, "x"), Num(24)), 0, 10000),
             y |-> clamp(Nullish(Get(el, "y"), Num(24)), 0, 10000),
             w |-> clamp(Nullish(Get(el, "w"), Num(200)), 40, 10000),
             h |-> clamp(Nullish(Get(el, "h"), Num(80)), 30, 10000),
             fontSize |-> clamp(Nullish(Get(el, "fontSize"), Num(20)), 8, 160),
             color |-> Or(Get(el, "color"), Str("#111827")),
             bg |-> Or(Get(el, "bg"), IF subtype = Str("caption") THEN Str("#fef3c7") ELSE Str("#ffffffcc")),
             rotate |-> Nullish(Get(el, "rotate"), Num(0)),
             z |-> Nullish(Get(el, "z"), Num(1)),
             align |-> IF Get(el, "align") \in Aligns THEN Get(el, "align") ELSE Str("left"),
             radius |-> clamp(Nullish(Get(el, "radius"), IF subtype = Str("speech") THEN Num(16) ELSE Num(8)), 0, 64),
             weight |-> clamp(Nullish(Get(el, "weight"), IF subtype = Str("sfx") THEN Num(800) ELSE Num(600)), 100, 900)])

\* The number of uid() calls that sanitizing panel entry p makes
UidCalls(p) ==
  (IF Truthy(Get(p, "id")) THEN 0 ELSE 1)
  + (IF IsArray(Get(p, "elements")) THEN Len(Get(p, "elements").arr) ELSE 0)

RECURSIVE UidCallsUpTo(_, _)
UidCallsUpTo(ps, k) == IF k = 0 THEN 0 ELSE UidCallsUpTo(ps, k - 1) + UidCalls(ps[k])

\* The panel object loadJSON builds from a non-null entry p, uid() returning Uid(n), Uid(n+1), ...
sanitizePanel(p, n) ==
  LET hasId == Truthy(Get(p, "id"))
      m == IF hasId THEN n ELSE n + 1
      els == Get(p, "elements")
  IN [id |-> IF hasId THEN p.id ELSE Uid(n),
      bg |-> Or(Get(p, "bg"), Str("#ffffff")),
      elements |-> IF IsArray(els)
                   THEN [k \in 1..Len(els.arr) |-> sanitizeElement(els.arr[k], m + k - 1)]
                   ELSE <<>>]

\* The argument loadJSON passes to setPage, for a doc that passed the shape check
sanitizeDocument(doc, n) ==
  LET ps == doc.panels.arr
  IN [layout |-> IF InLAYOUTS(Get(doc, "layout")) THEN doc.layout ELSE Str("4"),
      panels |-> [i \in 1..Len(ps) |-> sanitizePanel(ps[i], n + UidCallsUpTo(ps, i - 1))]]

\* p.id or el.type on a null entry raises a TypeError
Raises(doc) ==
  LET ps == doc.panels.arr
  IN \E i \in 1..Len(ps) :
       \/ ps[i] = null
       \/ /\ IsArray(Get(ps[i], "elements"))
          /\ \E k \in 1..Len(ps[i].elements.arr) : ps[i].elements.arr[k] = null

-----------------------------------------------------------------------------
(* JSON text: [json |-> v] holds the value v it parses to; [garbage |-> TRUE] *)
(* is a text JSON.parse rejects.                                            *)

JSONScalar(v) == IF v = NaN THEN null ELSE v

\* An object's own properties as JSON.stringify writes them: undefined dropped
JSONObject(r) == [f \in {g \in DOMAIN r : r[g] # UNDEF} |-> JSONScalar(r[f])]

JSONPanel(pan) ==
  [id |-> JSONScalar(pan.id), bg |-> JSONScalar(pan.bg),
   elements |-> [arr |-> [k \in 1..Len(pan.elements) |-> JSONObject(pan.elements[k])]]]

\* JSON.stringify(page)
JSONstringify(p) ==
  [json |-> [layout |-> JSONScalar(p.layout),
             panels |-> [arr |-> [i \in 1..Len(p.panels) |-> JSONPanel(p.panels[i])]]]]

\* The page as a plain JavaScript value, as sanitizing it again would read it
JSValue(p) ==
  [layout |-> p.layout,
   panels |-> [arr |-> [i \in 1..Len(p.panels) |->
                 [id |-> p.panels[i].id, bg |-> p.panels[i].bg,
                  elements |-> [arr |-> p.panels[i].elements]]]]]

ParseFails(text) == DOMAIN text = {"garbage"}

\* !doc || !Array.isArray(doc.panels)
ShapeFails(doc) == ~Truthy(doc) \/ ~IsArray(Get(doc, "panels"))

\* The try block of reader.onload reaches its catch
LoadFails(text) == ParseFails(text) \/ ShapeFails(text.json) \/ Raises(text.json)

\* The first panel entry at which sanitizing raises
FirstRaise(doc) ==
  LET ps == doc.panels.arr
      bad(i) == \/ ps[i] = null
                \/ /\ IsArray(Get(ps[i], "elements"))
                   /\ \E k \in 1..Len(ps[i].elements.arr) : ps[i].elements.arr[k] = null
  IN CHOOSE i \in 1..Len(ps) : bad(i) /\ \A j \in 1..(i - 1) : ~bad(j)

\* loadJSON pushing each sanitized panel into the page as it goes: a raise leaves
\* the panels before it installed
loadJSONInPlace(text, cur, n) ==
  IF ParseFails(text) \/ ShapeFails(text.json) THEN cur
  ELSE IF Raises(text.json)
  THEN sanitizeDocument([text.json EXCEPT !.panels = [arr |-> SubSeq(text.json.panels.arr, 1, FirstRaise(text.json) - 1)]], n)
  ELSE sanitizeDocument(text.json, n)

\* The page after reader.onload ran on text with current page cur
loadJSON(text, cur, n) == IF LoadFails(text) THEN cur ELSE sanitizeDocument(text.json, n)

\* uid() calls of a successful load
LoadUidCalls(text) == IF LoadFails(text) THEN 0 ELSE UidCallsUpTo(text.json.panels.arr, Len(text.json.panels.arr))

-----------------------------------------------------------------------------
(* Bounds and inputs *)

MaxSteps == 4

MaxUid == 8

MaxProbes == 1

\* The panels whose buttons and background the user clicks: 1..MaxPanelIdx
MaxPanelIdx == 2

LayoutKeys == DOMAIN LAYOUTS

\* clientX, clientY of the pointer events
Points == {<<200, 200>>, <<0, 0>>}

\* What the size probe of an image file resolves to
NaturalSizes == {null, [width |-> Num(100), height |-> Num(50)]}

TextEl == [type |-> Str("text"), subtype |-> Str("caption"), x |-> Num(-5), w |-> Num(20000), z |-> Num(-2)]

\* The files the user picks in the Load dialog, besides a file saved from the current page
Files ==
  {[garbage |-> TRUE],
   [json |-> Num(5)],
   [json |-> [panels |-> [arr |-> <<>>]]],
   [json |-> [layout |-> Str("1"), panels |-> [arr |-> <<[id |-> Str("a")], null>>]]],
   [json |-> [layout |-> Str("toString"), panels |-> [arr |-> <<[id |-> Str("a")], [id |-> Str("a")]>>]]],
   [json |-> [layout |-> Str("2h"),
              panels |-> [arr |-> <<[id |-> Str("a"), bg |-> Str("#000000"), elements |-> [arr |-> <<TextEl>>]], Num(5)>>]]]}

\* Values a numeric field of a loaded element can hold
RawNumbers == {null, Num(-5), Num(50), Num(20000), Str("abc"), Str("7")}

TextNumericFields == {"x", "y", "w", "h", "fontSize", "radius", "weight"}

ImageNumericFields == {"x", "y", "w", "h"}

\* Element entries of loaded files: one field varied at a time
RichElements ==
  {[type |-> Str("text")] @@ (f :> v) : f \in TextNumericFields, v \in RawNumbers}
  \cup {[type |-> Str("image"), src |-> Str("a.png")] @@ (f :> v) : f \in ImageNumericFields, v \in RawNumbers}
  \cup {[subtype |-> st] : st \in Subtypes}
  \cup {[type |-> Str("image")], [type |-> Str("text")], TextEl, Num(5), null}

FileOf(layout, el) ==
  [json |-> [layout |-> layout, panels |-> [arr |-> <<[id |-> Str("a"), elements |-> [arr |-> <<el>>]]>>]]]

\* Files for exercising the sanitizer
RichFiles ==
  {FileOf(Str("1"), el) : el \in RichElements}
  \cup {[json |-> [layout |-> Str("1"), panels |-> [arr |-> <<[elements |-> Num(5)]>>]]],
        [json |-> [layout |-> Str("1"), panels |-> UNDEF]],
        [json |-> null]}

\* A text one character longer than the sanitizer keeps
LongText == [i \in 1..(TextMax + 1) |-> Digit[(i % 10) + 1]]

\* A text of exactly the length the sanitizer keeps
FullText == [i \in 1..TextMax |-> "a"]

\* Values the text field of a loaded element can hold
RawTexts == {null, Txt(<<>>), Txt(<<"H", "i">>), Txt(FullText), Txt(LongText), Num(42)}

\* Element entries the sanitizer treats as text: type 'text', another type, or none
TextElements ==
  {[type |-> Str("text"), text |-> t] : t \in RawTexts}
  \cup {[type |-> Str("text")], [subtype |-> Str("sfx"), text |-> Txt(LongText)],
        [type |-> Str("note"), text |-> Txt(<<"H", "i">>)]}

\* Files for exercising the sanitizer's text field
TextFiles == {FileOf(Str("1"), el) : el \in TextElements}

\* Element entries that carry their type and subtype and nothing else
BareElements ==
  {[type |-> Str("text"), subtype |-> st] : st \in Subtypes} \cup {[type |-> Str("image")]}

\* Files for exercising the sanitizer's defaults
BareFiles == {FileOf(Str("1"), el) : el \in BareElements}

\* The patches the Inspector's controls of a text element send
InspectorTextPatches == {[text |-> Txt(<<"H", "i">>)], [fontSize |-> Num(0)]}

\* The patches the Inspector's common controls send
InspectorPatches == {[x |-> Num(-7)], [w |-> Num(0)]}

PanelColors == {Str("#000000")}

-----------------------------------------------------------------------------
(* Mutation engine: the updater functions passed to setPage *)

setPanel(p, idx, patch) ==
  [p EXCEPT !.panels = [i \in 1..Len(p.panels) |->
     IF i = idx THEN Spread(p.panels[i], patch) ELSE p.panels[i]]]

\* mutateElement creating the element when no element of the panel has the id
mutateElementUpsert(p, panelIdx, elId, patch) ==
  [p EXCEPT !.panels = [i \in 1..Len(p.panels) |->
     IF i # panelIdx THEN p.panels[i]
     ELSE [p.panels[i] EXCEPT !.elements =
            IF \E k \in 1..Len(p.panels[i].elements) : p.panels[i].elements[k].id = elId
            THEN [k \in 1..Len(p.panels[i].elements) |->
                    IF p.panels[i].elements[k].id = elId
                    THEN Spread(p.panels[i].elements[k], patch)
                    ELSE p.panels[i].elements[k]]
            ELSE Append(p.panels[i].elements, Spread([id |-> elId], patch))]]]

mutateElement(p, panelIdx, elId, patch) ==
  [p EXCEPT !.panels = [i \in 1..Len(p.panels) |->
     IF i # panelIdx THEN p.panels[i]
     ELSE [p.panels[i] EXCEPT !.elements = [k \in 1..Len(p.panels[i].elements) |->
            IF p.panels[i].elements[k].id = elId
            THEN Spread(p.panels[i].elements[k], patch)
            ELSE p.panels[i].elements[k]]]]]

\* removeElement with the filter's test inverted: keeps the element, drops the others
removeElementOthers(p, panelIdx, elId) ==
  [p EXCEPT !.panels = [i \in 1..Len(p.panels) |->
     IF i # panelIdx THEN p.panels[i]
     ELSE [p.panels[i] EXCEPT !.elements = SelectSeq(p.panels[i].elements, LAMBDA el : el.id = elId)]]]

removeElement(p, panelIdx, elId) ==
  [p EXCEPT !.panels = [i \in 1..Len(p.panels) |->
     IF i # panelIdx THEN p.panels[i]
     ELSE [p.panels[i] EXCEPT !.elements = SelectSeq(p.panels[i].elements, LAMBDA el : el.id # elId)]]]

\* layoutSync rebuilding every panel instead of keeping the first ones
layoutSyncRebuild(p, n) ==
  LET need == LayoutPanels(p.layout)
  IN IF need = UNDEF THEN p
     ELSE [p EXCEPT !.panels = [i \in 1..need.num |-> EmptyPanel(n + i - 1)]]

\* The layout-sync effect's updater: slice(0, need), then push fresh panels
layoutSync(p, n) ==
  LET need == LayoutPanels(p.layout)
      len == Len(p.panels)
  IN IF need = UNDEF THEN p
     ELSE [p EXCEPT !.panels = [i \in 1..need.num |-> IF i <= len THEN p.panels[i] ELSE EmptyPanel(n + i - len - 1)]]

\* uid() calls of the layout-sync effect
SyncUidCalls(p) ==
  LET need == LayoutPanels(p.layout)
  IN IF need = UNDEF \/ need.num <= Len(p.panels) THEN 0 ELSE need.num - Len(p.panels)

\* page.panels[panelIdx]?.elements.find(x => x.id === elId)
Find(p, panelIdx, elId) ==
  IF panelIdx \in 1..Len(p.panels) /\ \E k \in 1..Len(p.panels[panelIdx].elements) : p.panels[panelIdx].elements[k].id = elId
  THEN LET k == CHOOSE j \in 1..Len(p.panels[panelIdx].elements) :
                  /\ p.panels[panelIdx].elements[j].id = elId
                  /\ \A q \in 1..(j - 1) : p.panels[panelIdx].elements[q].id # elId
       IN p.panels[panelIdx].elements[k]
  ELSE UNDEF

\* The first position at which the old and the new panel list differ in key
FirstMismatch(old, new) ==
  LET both == IF Len(old) < Len(new) THEN Len(old) ELSE Len(new)
  IN CHOOSE m \in 1..(both + 1) :
       /\ \A i \in 1..(m - 1) : old[i].id = new[i].id
       /\ m <= both => old[m].id # new[m].id

\* Panel components are rendered with key={panel.id}.  React keeps the component,
\* and so its dragRef, of every panel up to the first position whose key changed;
\* from there on a new panel takes over the component of the last remaining old
\* panel with its key, if no earlier new panel took it; any other panel mounts
\* with dragRef null.
Remount(old, new, refs) ==
  LET m == FirstMismatch(old, new)
      rest(i) == {j \in m..Len(old) : old[j].id = new[i].id}
  IN [i \in 1..Len(new) |->
        IF i < m THEN refs[i]
        ELSE IF rest(i) # {} /\ \A q \in m..(i - 1) : new[q].id # new[i].id
        THEN refs[CHOOSE j \in rest(i) : \A q \in rest(i) : q <= j]
        ELSE null]

\* The effects have run for the current render: the next input event can be handled
Settled == page.layout = depsLayout

-----------------------------------------------------------------------------
(* Initial state: App mounted with DEFAULT_PAGE, effects run *)

InitEditor ==
  /\ page = DEFAULT_PAGE(1)
  /\ selection = [panelIdx |-> 1, elId |-> null]
  /\ depsLayout = Str("4")
  /\ dragRef = [i \in 1..4 |-> null]
  /\ probes = {}
  /\ nextUid = 5
  /\ alertMsg = ""
  /\ steps = 0

InitExport(stored) ==
  /\ comicsCount \in stored
  /\ comicsCount0 = comicsCount
  /\ exporting = 0
  /\ exported = 0
  /\ exportFailed = 0

Init == InitEditor /\ InitExport({null})

-----------------------------------------------------------------------------
(* Editor actions *)

\* Header select onChange -> onLayout(layout)
OnLayout(k) ==
  /\ Settled /\ steps < MaxSteps
  /\ Str(k) # page.layout
  /\ nextUid + SyncUidCalls([page EXCEPT !.layout = Str(k)]) <= MaxUid + 1
  /\ page' = [page EXCEPT !.layout = Str(k)]
  /\ steps' = steps + 1
  /\ alertMsg' = ""
  /\ UNCHANGED <<selection, depsLayout, dragRef, probes, nextUid, exportVars>>

\* The useEffect with deps [page.layout], run after a render that changed page.layout
LayoutSync ==
  /\ ~Settled
  /\ page' = layoutSync(page, nextUid)
  /\ nextUid' = nextUid + SyncUidCalls(page)
  /\ depsLayout' = page.layout
  /\ dragRef' = Remount(page.panels, page'.panels, dragRef)
  /\ alertMsg' = ""
  /\ UNCHANGED <<selection, probes, steps, exportVars>>

\* Panel "+ Speech" / "+ Caption" / "+ SFX" buttons -> addText(idx, subtype)
AddText(idx, subtype) ==
  /\ Settled /\ steps < MaxSteps /\ nextUid <= MaxUid
  /\ idx \in 1..Len(page.panels)
  /\ page' = setPanel(page, idx, [elements |-> Append(page.panels[idx].elements, defaultText(subtype, nextUid))])
  /\ nextUid' = nextUid + 1
  /\ steps' = steps + 1
  /\ alertMsg' = ""
  /\ UNCHANGED <<selection, depsLayout, dragRef, probes, exportVars>>

\* Panel file input onChange -> addImage(idx, file), up to its await
AddImageStart(idx) ==
  /\ Settled /\ steps < MaxSteps /\ nextUid <= MaxUid
  /\ Cardinality(probes) < MaxProbes
  /\ idx \in 1..Len(page.panels)
  /\ probes' = probes \cup {[panelIdx |-> idx, elements |-> page.panels[idx].elements, url |-> [blob |-> nextUid]]}
  /\ nextUid' = nextUid + 1
  /\ steps' = steps + 1
  /\ alertMsg' = ""
  /\ UNCHANGED <<page, selection, depsLayout, dragRef, exportVars>>

\* addImage after its await: the probe resolved to natural
AddImageResolve(pr, natural) ==
  /\ Settled /\ nextUid <= MaxUid
  /\ pr \in probes
  /\ page' = setPanel(page, pr.panelIdx, [elements |-> Append(pr.elements, defaultImage(pr.url, natural, nextUid))])
  /\ probes' = probes \ {pr}
  /\ nextUid' = nextUid + 1
  /\ alertMsg' = ""
  /\ UNCHANGED <<selection, depsLayout, dragRef, steps, exportVars>>

\* PointerDownElement starting a move whatever was pressed, body or handle
PointerDownElementMoveOnly(idx, k, kind, pt) ==
  /\ Settled /\ steps < MaxSteps
  /\ idx \in 1..Len(page.panels)
  /\ k \in 1..Len(page.panels[idx].elements)
  /\ LET el == page.panels[idx].elements[k]
     IN /\ kind = "resize" => (selection.panelIdx = idx /\ selection.elId = el.id)
        /\ selection' = [panelIdx |-> idx, elId |-> el.id]
        /\ dragRef' = [dragRef EXCEPT ![idx] =
             [id |-> el.id, kind |-> "move", startX |-> pt[1], startY |-> pt[2],
              startRect |-> [x |-> el.x, y |-> el.y, w |-> el.w, h |-> el.h]]]
  /\ steps' = steps + 1
  /\ alertMsg' = ""
  /\ UNCHANGED <<page, depsLayout, probes, nextUid, exportVars>>

\* ElementView onPointerDown / handle onPointerDown -> startDrag(e, el, kind);
\* the handle is rendered only for the selected element
PointerDownElement(idx, k, kind, pt) ==
  /\ Settled /\ steps < MaxSteps
  /\ idx \in 1..Len(page.panels)
  /\ k \in 1..Len(page.panels[idx].elements)
  /\ LET el == page.panels[idx].elements[k]
     IN /\ kind = "resize" => (selection.panelIdx = idx /\ selection.elId = el.id)
        /\ selection' = [panelIdx |-> idx, elId |-> el.id]
        /\ dragRef' = [dragRef EXCEPT ![idx] =
             [id |-> el.id, kind |-> kind, startX |-> pt[1], startY |-> pt[2],
              startRect |-> [x |-> el.x, y |-> el.y, w |-> el.w, h |-> el.h]]]
  /\ steps' = steps + 1
  /\ alertMsg' = ""
  /\ UNCHANGED <<page, depsLayout, probes, nextUid, exportVars>>

\* Panel host onPointerDown -> onSelect(null)
PointerDownBackground(idx) ==
  /\ Settled /\ steps < MaxSteps
  /\ idx \in 1..Len(page.panels)
  /\ selection' = [panelIdx |-> idx, elId |-> null]
  /\ steps' = steps + 1
  /\ alertMsg' = ""
  /\ UNCHANGED <<page, depsLayout, dragRef, probes, nextUid, exportVars>>

\* MovePatch without the Math.max(20, ...) floor of a resize
MovePatchNoFloor(g, pt) ==
  LET dx == pt[1] - g.startX
      dy == pt[2] - g.startY
  IN IF g.kind = "move"
     THEN [x |-> Plus(g.startRect.x, Num(dx)), y |-> Plus(g.startRect.y, Num(dy))]
     ELSE [w |-> Plus(g.startRect.w, Num(dx)), h |-> Plus(g.startRect.h, Num(dy))]

\* The patch the move handler of a Panel with gesture g commits for a pointer at pt
MovePatch(g, pt) ==
  LET dx == pt[1] - g.startX
      dy == pt[2] - g.startY
  IN IF g.kind = "move"
     THEN [x |-> Plus(g.startRect.x, Num(dx)), y |-> Plus(g.startRect.y, Num(dy))]
     ELSE [w |-> MathMax(Num(20), Plus(g.startRect.w, Num(dx))),
           h |-> MathMax(Num(20), Plus(g.startRect.h, Num(dy)))]

RECURSIVE MoveAll(_, _, _, _)
\* The page after the move handlers of panels i..Len ran: each queues a mutateElement
MoveAll(p, refs, pt, i) ==
  IF i > Len(refs) THEN p
  ELSE MoveAll(IF refs[i] = null THEN p ELSE mutateElement(p, i, refs[i].id, MovePatch(refs[i], pt)),
               refs, pt, i + 1)

\* window pointermove: every mounted Panel's move handler runs
PointerMove(pt) ==
  /\ Settled /\ steps < MaxSteps
  /\ page' = MoveAll(page, dragRef, pt, 1)
  /\ steps' = steps + 1
  /\ alertMsg' = ""
  /\ UNCHANGED <<selection, depsLayout, dragRef, probes, nextUid, exportVars>>

\* PointerUp with no up listener: the gestures stay
PointerUpUnheard ==
  /\ Settled /\ steps < MaxSteps
  /\ dragRef' = dragRef
  /\ steps' = steps + 1
  /\ alertMsg' = ""
  /\ UNCHANGED <<page, selection, depsLayout, probes, nextUid, exportVars>>

\* window pointerup: every mounted Panel's up handler runs
PointerUp ==
  /\ Settled /\ steps < MaxSteps
  /\ dragRef' = [i \in 1..Len(dragRef) |-> null]
  /\ steps' = steps + 1
  /\ alertMsg' = ""
  /\ UNCHANGED <<page, selection, depsLayout, probes, nextUid, exportVars>>

ArrowKeys == {"ArrowUp", "ArrowDown", "ArrowLeft", "ArrowRight"}

Keys == {"Delete", "Backspace", "]", "["} \cup ArrowKeys

\* KeyPatch without the Math.max(0, ...) floor of '['
KeyPatchNoFloor(key, shiftKey, el) ==
  LET step == IF shiftKey THEN 10 ELSE 1
      dx == IF key = "ArrowRight" THEN step ELSE IF key = "ArrowLeft" THEN 0 - step ELSE 0
      dy == IF key = "ArrowDown" THEN step ELSE IF key = "ArrowUp" THEN 0 - step ELSE 0
  IN IF key \in ArrowKeys THEN [x |-> Plus(el.x, Num(dx)), y |-> Plus(el.y, Num(dy))]
     ELSE IF key = "]" THEN [z |-> Plus(Nullish(Get(el, "z"), Num(0)), Num(1))]
     ELSE [z |-> Plus(Nullish(Get(el, "z"), Num(0)), Num(-1))]

\* KeyPatch ignoring the shift key: the step is always 1
KeyPatchNoShift(key, shiftKey, el) ==
  LET step == 1
      dx == IF key = "ArrowRight" THEN step ELSE IF key = "ArrowLeft" THEN 0 - step ELSE 0
      dy == IF key = "ArrowDown" THEN step ELSE IF key = "ArrowUp" THEN 0 - step ELSE 0
  IN IF key \in ArrowKeys THEN [x |-> Plus(el.x, Num(dx)), y |-> Plus(el.y, Num(dy))]
     ELSE IF key = "]" THEN [z |-> Plus(Nullish(Get(el, "z"), Num(0)), Num(1))]
     ELSE [z |-> MathMax(Num(0), Plus(Nullish(Get(el, "z"), Num(0)), Num(-1)))]

\* The patch onKey sends for an arrow or z-order key on element el
KeyPatch(key, shiftKey, el) ==
  LET step == IF shiftKey THEN 10 ELSE 1
      dx == IF key = "ArrowRight" THEN step ELSE IF key = "ArrowLeft" THEN 0 - step ELSE 0
      dy == IF key = "ArrowDown" THEN step ELSE IF key = "ArrowUp" THEN 0 - step ELSE 0
  IN IF key \in ArrowKeys THEN [x |-> Plus(el.x, Num(dx)), y |-> Plus(el.y, Num(dy))]
     ELSE IF key = "]" THEN [z |-> Plus(Nullish(Get(el, "z"), Num(0)), Num(1))]
     ELSE [z |-> MathMax(Num(0), Plus(Nullish(Get(el, "z"), Num(0)), Num(-1)))]

\* window keydown -> onKey(e), no input or textarea focused
KeyDown(key, shiftKey) ==
  /\ Settled /\ steps < MaxSteps
  /\ selection.elId # null
  /\ LET el == Find(page, selection.panelIdx, selection.elId)
     IN IF key \in {"Delete", "Backspace"}
        THEN /\ page' = removeElement(page, selection.panelIdx, selection.elId)
             /\ selection' = [selection EXCEPT !.elId = null]
        ELSE /\ page' = IF el = UNDEF THEN page
                        ELSE mutateElement(page, selection.panelIdx, selection.elId, KeyPatch(key, shiftKey, el))
             /\ UNCHANGED selection
  /\ steps' = steps + 1
  /\ alertMsg' = ""
  /\ UNCHANGED <<depsLayout, dragRef, probes, nextUid, exportVars>>

\* Inspector "Panel background" onChange -> setPanel(panelIdx, {bg})
InspectorPanelBg(color) ==
  /\ Settled /\ steps < MaxSteps
  /\ page' = setPanel(page, selection.panelIdx, [bg |-> color])
  /\ steps' = steps + 1
  /\ alertMsg' = ""
  /\ UNCHANGED <<selection, depsLayout, dragRef, probes, nextUid, exportVars>>

\* An Inspector control's onChange -> mutateElement(panelIdx, el.id, patch)
InspectorEdit(patch) ==
  /\ Settled /\ steps < MaxSteps
  /\ LET el == Find(page, selection.panelIdx, selection.elId)
     IN /\ el # UNDEF
        /\ patch \in InspectorTextPatches => el.type = Str("text")
        /\ page' = mutateElement(page, selection.panelIdx, el.id, patch)
  /\ steps' = steps + 1
  /\ alertMsg' = ""
  /\ UNCHANGED <<selection, depsLayout, dragRef, probes, nextUid, exportVars>>

\* Inspector "Delete" button -> removeElement(panelIdx, el.id)
InspectorDelete ==
  /\ Settled /\ steps < MaxSteps
  /\ Find(page, selection.panelIdx, selection.elId) # UNDEF
  /\ page' = removeElement(page, selection.panelIdx, selection.elId)
  /\ selection' = [selection EXCEPT !.elId = null]
  /\ steps' = steps + 1
  /\ alertMsg' = ""
  /\ UNCHANGED <<depsLayout, dragRef, probes, nextUid, exportVars>>

\* Header file input onChange -> loadJSON(file): reader.onload with the file's text
LoadJSON(text) ==
  /\ Settled /\ steps < MaxSteps
  /\ nextUid + LoadUidCalls(text) + SyncUidCalls(loadJSON(text, page, nextUid)) <= MaxUid + 1
  /\ page' = loadJSON(text, page, nextUid)
  /\ nextUid' = nextUid + LoadUidCalls(text)
  /\ alertMsg' = IF LoadFails(text) THEN "Invalid JSON." ELSE ""
  /\ dragRef' = Remount(page.panels, page'.panels, dragRef)
  /\ steps' = steps + 1
  /\ UNCHANGED <<selection, depsLayout, probes, exportVars>>

\* Header "Save" then "Load" of the file just saved
LoadSaved == LoadJSON(JSONstringify(page))

-----------------------------------------------------------------------------
(* Export adapter *)

MaxExports == 6

ParseLimit == 40

\* Number(s) for the string s
NumberOfString(s) ==
  IF s = "" THEN Num(0)
  ELSE IF \E n \in 0..ParseLimit : NumberToString(n) = s
  THEN Num(CHOOSE n \in 0..ParseLimit : NumberToString(n) = s)
  ELSE NaN

\* bumpCount reading a misspelt key: getItem returns null whatever is stored
bumpCountWrongKey(stored) == Str("1")

\* String(Number(localStorage.getItem('comicsCount') || '0') + 1)
bumpCount(stored) ==
  LET n == Plus(NumberOfString(Or(stored, Str("0")).str), Num(1))
  IN Str(IF n = NaN THEN "NaN" ELSE NumberToString(n.num))

\* Header "Export PNG" -> exportPNG, up to await toPng(...)
ExportStart ==
  /\ exporting + exported + exportFailed < MaxExports
  /\ exporting' = exporting + 1
  /\ alertMsg' = ""
  /\ UNCHANGED <<editorVars, steps, comicsCount, comicsCount0, exported, exportFailed>>

\* toPng resolved: download, then bump the stored count
ExportResolve ==
  /\ exporting > 0
  /\ exporting' = exporting - 1
  /\ exported' = exported + 1
  /\ comicsCount' = bumpCount(comicsCount)
  /\ alertMsg' = "Exported PNG and updated dashboard count."
  /\ UNCHANGED <<editorVars, steps, comicsCount0, exportFailed>>

\* toPng rejected: the catch block
ExportReject ==
  /\ exporting > 0
  /\ exporting' = exporting - 1
  /\ exportFailed' = exportFailed + 1
  /\ alertMsg' = "Export failed. (CORS or memory). Try smaller images."
  /\ UNCHANGED <<editorVars, steps, comicsCount, comicsCount0, exported>>

-----------------------------------------------------------------------------
(* Specifications *)

Next ==
  \/ \E k \in LayoutKeys : OnLayout(k)
  \/ LayoutSync
  \/ \E idx \in 1..MaxPanelIdx, subtype \in Subtypes : AddText(idx, subtype)
  \/ \E idx \in 1..MaxPanelIdx : AddImageStart(idx)
  \/ \E pr \in probes, natural \in NaturalSizes : AddImageResolve(pr, natural)
  \/ \E idx \in 1..4, k \in 1..MaxUid, kind \in {"move", "resize"}, pt \in Points : PointerDownElement(idx, k, kind, pt)
  \/ \E idx \in 1..MaxPanelIdx : PointerDownBackground(idx)
  \/ \E pt \in Points : PointerMove(pt)
  \/ PointerUp
  \/ \E key \in Keys, shiftKey \in BOOLEAN : KeyDown(key, shiftKey)
  \/ \E color \in PanelColors : InspectorPanelBg(color)
  \/ \E patch \in InspectorTextPatches \cup InspectorPatches : InspectorEdit(patch)
  \/ InspectorDelete
  \/ \E text \in Files : LoadJSON(text)
  \/ LoadSaved

\* The editor: every handler but the export, which shares no state with them
Spec == Init /\ [][Next]_vars

EditNext ==
  \/ \E k \in LayoutKeys : OnLayout(k)
  \/ LayoutSync
  \/ \E idx \in 1..MaxPanelIdx, subtype \in Subtypes : AddText(idx, subtype)
  \/ \E idx \in 1..MaxPanelIdx : AddImageStart(idx)
  \/ \E pr \in probes, natural \in NaturalSizes : AddImageResolve(pr, natural)
  \/ \E idx \in 1..4, k \in 1..MaxUid, kind \in {"move", "resize"}, pt \in Points : PointerDownElement(idx, k, kind, pt)
  \/ \E idx \in 1..MaxPanelIdx : PointerDownBackground(idx)
  \/ \E pt \in Points : PointerMove(pt)
  \/ PointerUp
  \/ \E key \in Keys, shiftKey \in BOOLEAN : KeyDown(key, shiftKey)
  \/ \E color \in PanelColors : InspectorPanelBg(color)
  \/ InspectorDelete

\* The editing operations alone: no load, no Inspector field edit
EditSpec == Init /\ [][EditNext]_vars

LoadNext ==
  \/ \E text \in Files \cup RichFiles \cup TextFiles \cup BareFiles : LoadJSON(text)
  \/ LoadSaved
  \/ LayoutSync

\* Loads alone, over the files that exercise the sanitizer
LoadSpec == Init /\ [][LoadNext]_vars

ExportNext == ExportStart \/ ExportResolve \/ ExportReject

\* The export alone, from each stored count the page can be opened with
InitStored == InitEditor /\ InitExport({null, Str("0"), Str("9")})

ExportSpec == InitStored /\ [][ExportNext]_vars

-----------------------------------------------------------------------------
(* Properties *)

Max(a, b) == IF a >= b THEN a ELSE b

PanelIdxs == 1..Len(page.panels)

ElemIdxs(i) == 1..Len(page.panels[i].elements)

InRange(v, a, b) == IsNum(v) /\ a <= v.num /\ v.num <= b

\* C1: once the layout-sync effect has run, the number of panels is the panel
\* count of the current layout (1, 2, 2 or 4).
C1_PanelCountMatchesLayout ==
  (Settled /\ PropertyKey(page.layout) \in DOMAIN LAYOUTS)
    => Len(page.panels) = LAYOUTS[PropertyKey(page.layout)].panels

\* C2: the layout change itself leaves the panels alone; the layout-sync that follows
\* keeps every panel below the old and the new count as it was and appends only
\* fresh empty white panels; so '4' -> '1' -> '4' keeps panel 0 and leaves panels
\* 1..3 empty.
C2_LayoutSyncKeepsOverlap ==
  /\ [][(\E k \in LayoutKeys : OnLayout(k)) => page'.panels = page.panels]_vars
  /\ [][LayoutSync =>
          \A i \in 1..Len(page'.panels) :
            IF i <= Len(page.panels)
            THEN page'.panels[i] = page.panels[i]
            ELSE /\ page'.panels[i].elements = <<>>
                 /\ page'.panels[i].bg = Str("#ffffff")
                 /\ \A j \in 1..Len(page.panels) : page.panels[j].id # page'.panels[i].id]_vars
  /\ []((Settled /\ page.layout = Str("4") /\ Len(page.panels) = 4) =>
          LET p1 == layoutSync([page EXCEPT !.layout = Str("1")], nextUid)
              p4 == layoutSync([p1 EXCEPT !.layout = Str("4")], nextUid)
          IN /\ Len(p1.panels) = 1 /\ Len(p4.panels) = 4
             /\ p4.panels[1] = page.panels[1]
             /\ \A i \in 2..4 : p4.panels[i].elements = <<>> /\ p4.panels[i].bg = Str("#ffffff"))

\* The page went '4' -> fewer panels -> '4' with content in panels 0 and 1: panel 0
\* is the original one with its element, panels 1..3 are new and empty
C2_Witness ==
  /\ Settled /\ page.layout = Str("4") /\ Len(page.panels) = 4
  /\ page.panels[1].id = Uid(1) /\ page.panels[1].elements # <<>>
  /\ \A i \in 2..4 : page.panels[i].id \in {Uid(n) : n \in 5..MaxUid} /\ page.panels[i].elements = <<>>

\* C3: saving the page and loading the file back gives the page again, every
\* field of every panel and element equal.
C3_SaveLoadRoundTrip ==
  Settled => loadJSON(JSONstringify(page), page, nextUid) = page

\* C4: sanitizing a sanitized document again yields the same document, ids included.
C4_SanitizeIdempotent ==
  Settled => sanitizeDocument(JSValue(page), nextUid) = page

\* C5: every numeric field of a sanitized element lies in its documented range.
C5_NumericFieldsInRange ==
  \A i \in PanelIdxs : \A k \in ElemIdxs(i) :
    LET el == page.panels[i].elements[k]
    IN /\ InRange(el.x, 0, 10000) /\ InRange(el.y, 0, 10000)
       /\ el.type = Str("image") => InRange(el.w, 10, 10000) /\ InRange(el.h, 10, 10000)
       /\ el.type = Str("text") =>
            /\ InRange(el.w, 40, 10000) /\ InRange(el.h, 30, 10000)
            /\ InRange(el.fontSize, 8, 160)
            /\ InRange(el.radius, 0, 64)
            /\ InRange(el.weight, 100, 900)

\* A panel list as loadJSON is meant to install it
ValidPanels(ps) ==
  \A i \in 1..Len(ps) :
    /\ DOMAIN ps[i] = {"id", "bg", "elements"}
    /\ \A k \in 1..Len(ps[i].elements) : ps[i].elements[k].type \in {Str("text"), Str("image")}

\* C6: a parsed input is rejected only if it is not an object or its panels is not
\* an array; any other parsed input is installed, sanitized, without an alert.
C6_OnlyShapeRejects ==
  [][\A text \in Files \cup RichFiles :
       (LoadJSON(text) /\ ~ParseFails(text) /\ ~ShapeFails(text.json))
         => /\ alertMsg' = ""
            /\ Len(page'.panels) = Len(text.json.panels.arr)
            /\ ValidPanels(page'.panels)]_vars

\* C7: a load that fails (unparseable text, failed shape check, or a raise while
\* sanitizing) leaves the page as it was and only shows the alert.
C7_FailedLoadKeepsPage ==
  [][\A text \in Files \cup {JSONstringify(page)} :
       (LoadJSON(text) /\ LoadFails(text))
         => /\ page' = page
            /\ alertMsg' = "Invalid JSON."
            /\ UNCHANGED <<selection, depsLayout, dragRef, probes, nextUid>>]_vars

\* A load was just rejected while the page holds an element
C7_Witness ==
  /\ alertMsg = "Invalid JSON."
  /\ \E i \in PanelIdxs : page.panels[i].elements # <<>>

\* C8: a pointer-move of a resize gesture sets w and h to max(20, anchor + delta)
\* and leaves x and y alone, so w >= 20 and h >= 20 afterwards.
C8_ResizeFloor ==
  [][\A pt \in Points :
       PointerMove(pt) =>
         \A i \in PanelIdxs :
           (dragRef[i] # null /\ dragRef[i].kind = "resize") =>
             \A k \in ElemIdxs(i) :
               page.panels[i].elements[k].id = dragRef[i].id =>
                 LET el == page.panels[i].elements[k]
                     el2 == page'.panels[i].elements[k]
                     g == dragRef[i]
                 IN /\ el2.w = Num(Max(20, g.startRect.w.num + (pt[1] - g.startX)))
                    /\ el2.h = Num(Max(20, g.startRect.h.num + (pt[2] - g.startY)))
                    /\ el2.x = el.x /\ el2.y = el.y
                    /\ el2.w.num >= 20 /\ el2.h.num >= 20]_vars

\* A resize anchored at w=100, h=50 was dragged by (-200, -200): w=20, h=20
C8_Witness ==
  \E i \in PanelIdxs :
    /\ dragRef[i] # null /\ dragRef[i].kind = "resize"
    /\ dragRef[i].startRect.w = Num(100) /\ dragRef[i].startRect.h = Num(50)
    /\ dragRef[i].startX = 200 /\ dragRef[i].startY = 200
    /\ \E k \in ElemIdxs(i) :
         /\ page.panels[i].elements[k].id = dragRef[i].id
         /\ page.panels[i].elements[k].w = Num(20)
         /\ page.panels[i].elements[k].h = Num(20)

CountValue(stored) == NumberOfString(Or(stored, Str("0")).str)

\* C10: a rejected toPng leaves the stored count unchanged, a resolved one raises
\* it by exactly 1, and in every state, whatever exports are still in flight, the
\* stored count is its initial value plus the number of exports that succeeded.
C10_CounterCountsSuccesses ==
  /\ [](CountValue(comicsCount) = Plus(CountValue(comicsCount0), Num(exported)))
  /\ [][/\ ExportReject => comicsCount' = comicsCount
        /\ ExportStart => comicsCount' = comicsCount
        /\ ExportResolve => CountValue(comicsCount') = Plus(CountValue(comicsCount), Num(1))]_vars

\* Two exports succeeded and one failed while another is still in flight, from a stored "9"
C10_Witness ==
  /\ comicsCount0 = Str("9")
  /\ exported = 2 /\ exportFailed = 1 /\ exporting = 1
  /\ comicsCount = Str("11")

\* C11: in every state the page's layout is one of the four keys '1', '2h', '2v',
\* '4'; a loaded layout that is none of them has been replaced by '4'.
C11_LayoutRecognized == page.layout \in {Str(k) : k \in LayoutKeys}

\* C12: panel ids are pairwise distinct within the page and element ids are
\* pairwise distinct within each panel.
C12_IdsDistinct ==
  /\ \A i, j \in PanelIdxs : i # j => page.panels[i].id # page.panels[j].id
  /\ \A i \in PanelIdxs : \A k, q \in ElemIdxs(i) :
       k # q => page.panels[i].elements[k].id # page.panels[i].elements[q].id

\* The string form of a loaded text value: absent or null is the empty string
TextForm(el) == IF Get(el, "text") \in {UNDEF, null} THEN <<>> ELSE StringOf(el.text)

\* C13: loading an element treated as text installs as its text the string form of
\* the input text cut to its first 2000 characters; a longer text yields exactly
\* 2000 characters and no rejection, a shorter one is kept whole, an absent one
\* becomes the empty string.
C13_TextCutTo2000 ==
  [][\A text \in TextFiles :
       LoadJSON(text) =>
         LET el == text.json.panels.arr[1].elements.arr[1]
             in == TextForm(el)
             out == page'.panels[1].elements[1].text
         IN /\ alertMsg' = ""
            /\ DOMAIN out = {"txt"}
            /\ out.txt = [i \in 1..(IF Len(in) < 2000 THEN Len(in) ELSE 2000) |-> in[i]]
            /\ Len(in) > 2000 => Len(out.txt) = 2000
            /\ Len(in) <= 2000 => out.txt = in
            /\ "text" \notin DOMAIN el => out.txt = <<>>]_vars

\* The page holds the first 2000 characters of the loaded 2001-character text
C13_Witness ==
  /\ alertMsg = ""
  /\ Len(page.panels) = 1 /\ Len(page.panels[1].elements) = 1
  /\ Get(page.panels[1].elements[1], "text") = Txt(SubSeq(LongText, 1, 2000))

\* The positions in panel i of the page at which the element with id elId sits
PositionsOf(i, elId) ==
  IF i \in PanelIdxs THEN {k \in ElemIdxs(i) : page.panels[i].elements[k].id = elId} ELSE {}

\* C14: with an element selected, Delete or Backspace removes exactly that element
\* from the selected panel, keeps every other element in its order and every other
\* panel as it was, and leaves the selection's element id none.
C14_DeleteRemovesSelected ==
  [][\A key \in {"Delete", "Backspace"}, shiftKey \in BOOLEAN :
       KeyDown(key, shiftKey) =>
         LET idx == selection.panelIdx
             ks == PositionsOf(idx, selection.elId)
         IN /\ selection' = [panelIdx |-> idx, elId |-> null]
            /\ page'.layout = page.layout
            /\ Len(page'.panels) = Len(page.panels)
            /\ \A i \in PanelIdxs : i # idx => page'.panels[i] = page.panels[i]
            /\ ks = {} => page' = page
            /\ ks # {} =>
                 LET k == CHOOSE q \in ks : TRUE
                     els == page.panels[idx].elements
                 IN /\ ks = {k}
                    /\ page'.panels[idx].id = page.panels[idx].id
                    /\ page'.panels[idx].bg = page.panels[idx].bg
                    /\ page'.panels[idx].elements = SubSeq(els, 1, k - 1) \o SubSeq(els, k + 1, Len(els))]_vars

\* Two texts were added to panel 0 and the first one was selected and deleted: the
\* panel holds the second alone and nothing is selected
C14_Witness ==
  /\ selection = [panelIdx |-> 1, elId |-> null]
  /\ nextUid = 7 /\ steps = 4 /\ probes = {}
  /\ Len(page.panels) = 4
  /\ Len(page.panels[1].elements) = 1
  /\ page.panels[1].elements[1].id = Uid(6)
  /\ \A i \in 2..4 : page.panels[i].elements = <<>>

\* C15: with an element selected, one arrow key changes exactly one of its x, y by
\* 1 (by 10 with shift) in the key's direction and leaves its other fields, the
\* other elements and the panels as they were.
C15_ArrowNudge ==
  [][\A key \in ArrowKeys, shiftKey \in BOOLEAN :
       KeyDown(key, shiftKey) =>
         LET idx == selection.panelIdx
             ks == PositionsOf(idx, selection.elId)
         IN ks # {} =>
              LET k == CHOOSE q \in ks : TRUE
                  el == page.panels[idx].elements[k]
                  el2 == page'.panels[idx].elements[k]
                  step == IF shiftKey THEN 10 ELSE 1
              IN /\ ks = {k}
                 /\ key = "ArrowRight" => el2.x = Num(el.x.num + step) /\ el2.y = el.y
                 /\ key = "ArrowLeft" => el2.x = Num(el.x.num - step) /\ el2.y = el.y
                 /\ key = "ArrowDown" => el2.y = Num(el.y.num + step) /\ el2.x = el.x
                 /\ key = "ArrowUp" => el2.y = Num(el.y.num - step) /\ el2.x = el.x
                 /\ page' = [page EXCEPT !.panels[idx].elements[k] = [el EXCEPT !.x = el2.x, !.y = el2.y]]
                 /\ UNCHANGED selection]_vars

\* A constructed element (x = 24, y = 24) is selected after shift+ArrowRight: x = 34
C15_Witness ==
  LET el == Find(page, selection.panelIdx, selection.elId)
  IN /\ selection.elId # null
     /\ el # UNDEF
     /\ el.x = Num(34) /\ el.y = Num(24)

\* The panels whose Panel component holds a gesture
ActiveGestures == {i \in 1..Len(dragRef) : dragRef[i] # null}

\* The elements a step changed, by panel and position
ChangedElements ==
  {ik \in {<<i, k>> : i \in PanelIdxs, k \in 1..MaxUid} :
     /\ ik[2] \in ElemIdxs(ik[1])
     /\ \/ ik[1] > Len(page'.panels)
        \/ ik[2] > Len(page'.panels[ik[1]].elements)
        \/ page'.panels[ik[1]].elements[ik[2]] # page.panels[ik[1]].elements[ik[2]]}

\* C16: at most one drag gesture is active on the whole page at any moment (a
\* pointer-down on an element while a gesture is active leaves only the new one
\* active), and a pointer-move changes the element of one gesture only.
C16_SingleGesture ==
  /\ [](Cardinality(ActiveGestures) <= 1)
  /\ [][(\E pt \in Points : PointerMove(pt)) => Cardinality(ChangedElements) <= 1]_vars

\* C17: when an image add completes, the target panel's elements are the elements
\* it held just before the completion, unchanged and in order, followed by the
\* new image.
C17_ImageAppendsToCurrent ==
  [][\A pr \in probes, natural \in NaturalSizes :
       (AddImageResolve(pr, natural) /\ pr.panelIdx \in PanelIdxs)
         => LET els == page.panels[pr.panelIdx].elements
                els2 == page'.panels[pr.panelIdx].elements
            IN /\ Len(els2) = Len(els) + 1
               /\ SubSeq(els2, 1, Len(els)) = els
               /\ els2[Len(els2)].type = Str("image")
               /\ els2[Len(els2)].src = pr.url]_vars

\* C18: whenever the selection names an element, its panel index is a panel of the
\* page and that panel holds an element with that id.
C18_SelectionResolves ==
  selection.elId # null =>
    /\ selection.panelIdx \in PanelIdxs
    /\ \E k \in ElemIdxs(selection.panelIdx) : page.panels[selection.panelIdx].elements[k].id = selection.elId

\* C19: a pointer-up leaves no gesture active in any panel; while none is active
\* a pointer-move leaves the document unchanged, and only a pointer-down on an
\* element makes a gesture active again.
C19_PointerUpEndsGestures ==
  /\ [][PointerUp => \A i \in 1..Len(dragRef') : dragRef'[i] = null]_vars
  /\ [][(ActiveGestures = {} /\ \E pt \in Points : PointerMove(pt)) => page' = page]_vars
  /\ [][(ActiveGestures = {} /\ \E i \in 1..Len(dragRef') : dragRef'[i] # null)
          => \E idx \in PanelIdxs : \E k \in ElemIdxs(idx), kind \in {"move", "resize"}, pt \in Points :
               PointerDownElement(idx, k, kind, pt)]_vars

\* An element was dragged from x = 24 to x = 224 and the pointer was released: no
\* panel holds a gesture
C19_Witness ==
  /\ \A i \in 1..Len(dragRef) : dragRef[i] = null
  /\ steps = 4
  /\ \E i \in PanelIdxs : \E k \in ElemIdxs(i) :
       /\ page.panels[i].elements[k].x = Num(224)
       /\ selection = [panelIdx |-> i, elId |-> page.panels[i].elements[k].id]

\* C20: a pointer-down on an element's body or resize handle starts a gesture on
\* that element, in mode move or resize respectively, anchored at the element's
\* current x, y, w, h and at the pointer position; it selects that panel and that
\* element and does not change the document.
C20_PointerDownStartsGesture ==
  [][\A idx \in PanelIdxs : \A k \in ElemIdxs(idx), kind \in {"move", "resize"}, pt \in Points :
       PointerDownElement(idx, k, kind, pt) =>
         LET el == page.panels[idx].elements[k]
             g == dragRef'[idx]
         IN /\ g # null
            /\ g.id = el.id
            /\ g.kind = kind
            /\ g.startX = pt[1] /\ g.startY = pt[2]
            /\ g.startRect = [x |-> el.x, y |-> el.y, w |-> el.w, h |-> el.h]
            /\ selection' = [panelIdx |-> idx, elId |-> el.id]
            /\ page' = page]_vars

\* The handle of a selected element was pressed at (200, 200): its panel holds a
\* resize gesture on it, anchored at its rect, and it is the selection
C20_Witness ==
  \E i \in PanelIdxs :
    /\ i <= Len(dragRef)
    /\ dragRef[i] # null /\ dragRef[i].kind = "resize"
    /\ dragRef[i].startX = 200 /\ dragRef[i].startY = 200
    /\ selection = [panelIdx |-> i, elId |-> dragRef[i].id]
    /\ \E k \in ElemIdxs(i) :
         /\ page.panels[i].elements[k].id = dragRef[i].id
         /\ dragRef[i].startRect = [x |-> page.panels[i].elements[k].x, y |-> page.panels[i].elements[k].y,
                                    w |-> page.panels[i].elements[k].w, h |-> page.panels[i].elements[k].h]

\* Panel indexes that are no panel of the page: -1, the length, the one after (0-based)
OutOfRange == {0, Len(page.panels) + 1, Len(page.panels) + 2}

\* Element ids that no element of panel i has
Unresolved(i) == {id \in {Uid(n) : n \in 1..(MaxUid + 1)} : PositionsOf(i, id) = {}}

\* C21: patching a panel at an index out of range, and patching or removing an
\* element whose panel index or element id does not resolve, leave the document
\* as it was; so do the handlers that send such a patch: a pointer-move of a
\* gesture whose element is gone, a key on a selection that no longer resolves,
\* the panel-background control and a completing image add on a panel that is gone.
C21_UnresolvedIsNoOp ==
  /\ [](\A idx \in OutOfRange :
          /\ setPanel(page, idx, [bg |-> Str("#000000")]) = page
          /\ setPanel(page, idx, [elements |-> <<>>]) = page
          /\ \A id \in {Uid(n) : n \in 1..(MaxUid + 1)} :
               /\ mutateElement(page, idx, id, [x |-> Num(0)]) = page
               /\ removeElement(page, idx, id) = page)
  /\ [](\A i \in PanelIdxs : \A id \in Unresolved(i) :
          /\ mutateElement(page, i, id, [x |-> Num(0), y |-> Num(0)]) = page
          /\ removeElement(page, i, id) = page)
  /\ [][(\E pt \in Points : PointerMove(pt)) =>
          \A i \in PanelIdxs :
            (i > Len(dragRef) \/ dragRef[i] = null \/ PositionsOf(i, dragRef[i].id) = {})
              => page'.panels[i] = page.panels[i]]_vars
  /\ [][((\E key \in Keys, shiftKey \in BOOLEAN : KeyDown(key, shiftKey))
          /\ PositionsOf(selection.panelIdx, selection.elId) = {}) => page' = page]_vars
  /\ [][((\E color \in PanelColors : InspectorPanelBg(color)) /\ selection.panelIdx \notin PanelIdxs)
          => page' = page]_vars
  /\ [][\A pr \in probes :
          ((\E natural \in NaturalSizes : AddImageResolve(pr, natural)) /\ pr.panelIdx \notin PanelIdxs)
            => page' = page]_vars

\* A gesture is still held on an element that was deleted, and a later event (a
\* pointer-move among them) has left the emptied panel as it was
C21_Witness ==
  /\ steps = 4 /\ nextUid = 6 /\ probes = {}
  /\ selection.elId = null
  /\ \E i \in PanelIdxs :
       /\ i <= Len(dragRef)
       /\ dragRef[i] # null /\ dragRef[i].id = Uid(5)
       /\ page.panels[i].elements = <<>>

\* The element the default constructor makes for the type and subtype of el
DefaultFor(el, n) ==
  IF el.type = Str("image") THEN defaultImage(Str(""), null, n) ELSE defaultText(el.subtype, n)

NumericFields == {"x", "y", "w", "h", "fontSize", "rotate", "z", "radius", "weight"}

\* C22: loading an element that carries only its type and subtype gives every
\* numeric field the value the default constructor produces for that type and
\* subtype (fontSize 36 for sfx, 20 otherwise; radius 16 for speech, 8 otherwise;
\* weight 800 for sfx, 600 otherwise; ...), and the loaded element equals the
\* freshly constructed default element except for its id.
C22_DefaultsMatchConstructor ==
  [][\A el \in BareElements :
       LoadJSON(FileOf(Str("1"), el)) =>
         LET out == page'.panels[1].elements[1]
             def == DefaultFor(el, nextUid)
         IN /\ \A f \in NumericFields \cap DOMAIN def : Get(out, f) = def[f]
            /\ [out EXCEPT !.id = null] = [def EXCEPT !.id = null]]_vars

====
